---- MODULE Spec2Model ----
(***************************************************************************)
(* Model of snake_game/game.py: the SnakeGame engine (reset, key handling,  *)
(* one simulation step, food spawning) and the _curses_main game loop that  *)
(* drives it.                                                               *)
(*                                                                          *)
(* Three specifications share the same state and the same engine steps:     *)
(*   SpecEngine  the engine methods called in any order on a constructed    *)
(*               engine of the smallest board (_reset_game, _handle_key,    *)
(*               _update), MaxTicks ticks deep into each round;             *)
(*   Spec        the game loop of _curses_main (input polling, frame        *)
(*               pacing, the play-again prompt), LoopTicks ticks deep into  *)
(*               each round, entered either from the constructed engine or  *)
(*               late in a round, when the snake has eaten its way along a  *)
(*               row-by-row path and at most MaxFree cells are free, so     *)
(*               that a filled board is within reach;                       *)
(*   SpecReset   the engine methods on boards of several sizes, ResetTicks  *)
(*               ticks deep into each round, from the constructed engine    *)
(*               or late in a round.                                        *)
(***************************************************************************)
EXTENDS Integers, Sequences, FiniteSets, TLC

(* ------------------------------ bounds ---------------------------------- *)
\* _update calls explored per round by SpecEngine
MaxTicks == 5
\* _update calls explored per round by Spec
LoopTicks == 3
\* _update calls explored per round by SpecReset and SpecLive
ResetTicks == 1
\* random.choice is explored for the empty cells within this Manhattan
\* distance of the head (all empty cells when there is none that near)
FoodRange == 1
\* clock quanta that make up frame_delay
FrameDelay == 1
\* widest / tallest board above the minimum that SpecReset constructs
ExtraSide == 2
\* most free cells of a late-round starting position
MaxFree == 3
\* SpecConfig passes __init__ arguments up to this far from each limit
ArgSlack == 2

(* ------------------------- program constants ---------------------------- *)
\* __init__: width and height must be at least 10
MinSide == 10
\* _reset_game: the snake starts with three segments
StartLen == 3
\* __init__: speed must be between 1 and 30
MinSpeed == 1
MaxSpeed == 30
\* __init__: the speed when none is given
DefaultSpeed == 10

VARIABLES
    width, height,          \* self.width, self.height
    speed,                  \* self.speed
    snake,                  \* self.snake: sequence of points, head first
    snake_positions,        \* self.snake_positions: set of points
    direction,              \* self.direction
    next_direction,         \* self.next_direction
    food,                   \* self.food: a point or None
    score,                  \* self.score
    paused,                 \* self.paused
    quit_requested,         \* self.quit_requested
    needs_redraw,           \* self.needs_redraw
    state,                  \* the GameState the last _update returned
    branch,                 \* the return path the last _update took
    ticks,                  \* _update calls since the last reset
    limit,                  \* _update calls explored per round in this run
    pc,                     \* position in _curses_main ("api": no loop)
    since                   \* min(clock - last_update, FrameDelay)

engine == <<snake, snake_positions, direction, next_direction, food, score,
            paused, quit_requested, needs_redraw>>
board == <<width, height, speed>>
vars == <<width, height, speed, snake, snake_positions, direction, next_direction,
          food, score, paused, quit_requested, needs_redraw, state, branch,
          ticks, limit, pc, since>>

(* ------------------------------ geometry -------------------------------- *)
None == <<>>

Point(x, y) == <<x, y>>

translate(p, dx, dy) == Point(p[1] + dx, p[2] + dy)

Directions == {"UP", "DOWN", "LEFT", "RIGHT"}

delta(d) ==
    CASE d = "UP" -> <<0, -1>>
      [] d = "DOWN" -> <<0, 1>>
      [] d = "LEFT" -> <<-1, 0>>
      [] d = "RIGHT" -> <<1, 0>>

is_opposite(a, b) ==
    /\ delta(a)[1] = -delta(b)[1]
    /\ delta(a)[2] = -delta(b)[2]

GameStates == {"RUNNING", "COLLISION", "WIN"}

\* Terminal without WIN
TerminalCollisionOnly == {"COLLISION"}

\* the results that send the loop to the play-again prompt
Terminal == {"COLLISION", "WIN"}

\* InBounds that lets the far edges through
InBoundsInclusive(p) ==
    0 <= p[1] /\ p[1] <= width /\ 0 <= p[2] /\ p[2] <= height

\* the wall test of _update
InBounds(p) == 0 <= p[1] /\ p[1] < width /\ 0 <= p[2] /\ p[2] < height

Cells == {Point(x, y) : x \in 0..(width - 1), y \in 0..(height - 1)}

Range(s) == {s[i] : i \in 1..Len(s)}

Abs(n) == IF n < 0 THEN -n ELSE n

(* ----------------------------- food spawner ----------------------------- *)
\* IsEmpty that takes every cell for empty
IsEmptyAlways(c, positions) == TRUE

\* the filter of the list comprehension of _spawn_food
IsEmpty(c, positions) == c \notin positions

\* the list comprehension of _spawn_food
EmptyCells(positions) == {c \in Cells : IsEmpty(c, positions)}

\* the empty cells within FoodRange of the head
NearCells(positions, head) ==
    {c \in {Point(head[1] + dx, head[2] + dy) :
               dx \in (-FoodRange)..FoodRange, dy \in (-FoodRange)..FoodRange} :
        /\ Abs(c[1] - head[1]) + Abs(c[2] - head[2]) <= FoodRange
        /\ InBounds(c)
        /\ IsEmpty(c, positions)}

\* the values _spawn_food can leave in self.food: None when no cell is
\* empty; random.choice is explored for the empty cells near the head, and
\* for every empty cell when none is near
SpawnFood(positions, head) ==
    LET near == NearCells(positions, head)
    IN  IF near # {} THEN near
        ELSE LET empty_cells == EmptyCells(positions)
             IN  IF empty_cells = {} THEN {None} ELSE empty_cells

(* -------------------------------- reset --------------------------------- *)
StartSnake ==
    LET mid_x == width \div 2
        mid_y == height \div 2
    IN  <<Point(mid_x, mid_y), Point(mid_x - 1, mid_y), Point(mid_x - 2, mid_y)>>

\* ResetGame that keeps the score of the round before
ResetGameKeepScore ==
    /\ snake' = StartSnake
    /\ snake_positions' = Range(StartSnake)
    /\ direction' = "RIGHT"
    /\ next_direction' = "RIGHT"
    /\ paused' = FALSE
    /\ quit_requested' = FALSE
    /\ needs_redraw' = TRUE
    /\ food' \in SpawnFood(Range(StartSnake), StartSnake[1])
    /\ ticks' = 0
    /\ UNCHANGED <<score, state, branch>>

\* _reset_game
ResetGame ==
    /\ snake' = StartSnake
    /\ snake_positions' = Range(StartSnake)
    /\ direction' = "RIGHT"
    /\ next_direction' = "RIGHT"
    /\ score' = 0
    /\ paused' = FALSE
    /\ quit_requested' = FALSE
    /\ needs_redraw' = TRUE
    /\ food' \in SpawnFood(Range(StartSnake), StartSnake[1])
    /\ ticks' = 0
    /\ UNCHANGED <<state, branch>>

(* ------------------------------ key handling ---------------------------- *)
direction_map ==
    [k \in {"KEY_UP", "w", "W"} |-> "UP"] @@
    [k \in {"KEY_DOWN", "s", "S"} |-> "DOWN"] @@
    [k \in {"KEY_LEFT", "a", "A"} |-> "LEFT"] @@
    [k \in {"KEY_RIGHT", "d", "D"} |-> "RIGHT"]

\* the keys the terminal is explored to deliver ("x": any unbound key)
Keys == {"KEY_UP", "KEY_DOWN", "KEY_LEFT", "KEY_RIGHT", "a", "p",
         "q", "r", "x"}

\* Admitted without the test for the opposite direction
AdmittedReversal(new_direction) == new_direction # direction

\* Admitted that tests the request against the pending direction
AdmittedAgainstPending(new_direction) ==
    /\ ~is_opposite(new_direction, next_direction)
    /\ new_direction # next_direction

\* the admission test of _handle_key
Admitted(new_direction) ==
    /\ ~is_opposite(new_direction, direction)
    /\ new_direction # direction

\* the fields _handle_key can write
Fields ==
    [next_direction |-> next_direction, paused |-> paused,
     quit_requested |-> quit_requested, needs_redraw |-> needs_redraw]

\* AfterKey whose quit key flips the flag
AfterKeyQuitFlips(key, e) ==
    IF key \in DOMAIN direction_map
    THEN IF Admitted(direction_map[key])
         THEN [e EXCEPT !.next_direction = direction_map[key],
                        !.needs_redraw = TRUE]
         ELSE e
    ELSE IF key \in {"p", "P"}
    THEN [e EXCEPT !.paused = ~e.paused, !.needs_redraw = TRUE]
    ELSE IF key \in {"q", "Q"}
    THEN [e EXCEPT !.quit_requested = ~e.quit_requested]
    ELSE e

\* _handle_key as a function of the fields it can write: their values e
\* before the call, their values after it
AfterKey(key, e) ==
    IF key \in DOMAIN direction_map
    THEN IF Admitted(direction_map[key])
         THEN [e EXCEPT !.next_direction = direction_map[key],
                        !.needs_redraw = TRUE]
         ELSE e
    ELSE IF key \in {"p", "P"}
    THEN [e EXCEPT !.paused = ~e.paused, !.needs_redraw = TRUE]
    ELSE IF key \in {"q", "Q"}
    THEN [e EXCEPT !.quit_requested = TRUE]
    ELSE e

\* _handle_key
HandleKey(key) ==
    /\ next_direction' = AfterKey(key, Fields).next_direction
    /\ paused' = AfterKey(key, Fields).paused
    /\ quit_requested' = AfterKey(key, Fields).quit_requested
    /\ needs_redraw' = AfterKey(key, Fields).needs_redraw
    /\ UNCHANGED <<snake, snake_positions, direction, food, score>>

(* ------------------------------- one tick ------------------------------- *)
\* HitsSelf without the exception for the tail cell
HitsSelfTailToo(new_head, growing, tail) == new_head \in snake_positions

\* the self-collision test of _update
HitsSelf(new_head, growing, tail) ==
    new_head \in snake_positions /\ ~(~growing /\ new_head = tail)

\* Advance that pops the tail even when growing
AdvanceAlwaysPop(new_head, growing) ==
    <<new_head>> \o SubSeq(snake, 1, Len(snake) - 1)

\* the body after the move: pop the tail unless growing, then appendleft
Advance(new_head, growing) ==
    <<new_head>> \o (IF growing THEN snake ELSE SubSeq(snake, 1, Len(snake) - 1))

\* AdvanceSet that never removes the tail
AdvanceSetKeepTail(new_head, growing, tail) == snake_positions \cup {new_head}

\* the occupied set after the move: remove the tail unless growing, then add
AdvanceSet(new_head, growing, tail) ==
    (IF growing THEN snake_positions ELSE snake_positions \ {tail})
        \cup {new_head}

\* GrowResult that does not look at the new food
GrowResultRunning(f) == "RUNNING"

\* the result of a growing tick, f being the food _spawn_food left
GrowResult(f) == IF f = None THEN "WIN" ELSE "RUNNING"

\* _update: the engine fields and the result it can leave
\* Ignored that commits the pending direction first
IgnoredAfterCommit(same) ==
    [same EXCEPT !.direction = next_direction] @@
        [state |-> "WIN", branch |-> "nofood"]

\* _update returns at once because food is None
Ignored(same) == same @@ [state |-> "WIN", branch |-> "nofood"]

\* Collided with the tail popped before the collision tests
CollidedAfterPop(turned, why) ==
    [turned EXCEPT !.snake = SubSeq(@, 1, Len(@) - 1),
                   !.snake_positions = @ \ {turned.snake[Len(turned.snake)]}]
        @@ [state |-> "COLLISION", branch |-> why]

\* _update returns COLLISION from the wall test or the self test
Collided(turned, why) == turned @@ [state |-> "COLLISION", branch |-> why]

UpdateOutcomes ==
    LET same == [snake |-> snake, snake_positions |-> snake_positions,
                 direction |-> direction, food |-> food, score |-> score,
                 needs_redraw |-> needs_redraw]
    IN
    IF food = None
    THEN {Ignored(same)}
    ELSE
    LET head == snake[1]
        new_head == translate(head, delta(next_direction)[1],
                              delta(next_direction)[2])
        growing == new_head = food
        tail == snake[Len(snake)]
        turned == [same EXCEPT !.direction = next_direction]
    IN
    IF ~InBounds(new_head)
    THEN {Collided(turned, "wall")}
    ELSE IF HitsSelf(new_head, growing, tail)
    THEN {Collided(turned, "self")}
    ELSE
    LET moved == [turned EXCEPT !.snake = Advance(new_head, growing),
                      !.snake_positions = AdvanceSet(new_head, growing, tail)]
    IN
    IF growing
    THEN {[moved EXCEPT !.score = score + 1, !.food = f,
                        !.needs_redraw = (GrowResult(f) = "RUNNING")
                                             \/ needs_redraw] @@
          [state |-> GrowResult(f),
           branch |-> IF f = None THEN "filled" ELSE "grow"]
          : f \in SpawnFood(moved.snake_positions, new_head)}
    ELSE {[moved EXCEPT !.needs_redraw = TRUE] @@
          [state |-> "RUNNING",
           branch |-> IF new_head = tail THEN "tail" ELSE "move"]}

\* one call of _update; after is the value the caller leaves in needs_redraw
Update(o, after) ==
    /\ snake' = o.snake
    /\ snake_positions' = o.snake_positions
    /\ direction' = o.direction
    /\ food' = o.food
    /\ score' = o.score
    /\ needs_redraw' = after
    /\ state' = o.state
    /\ branch' = o.branch
    /\ ticks' = ticks + 1
    /\ UNCHANGED <<next_direction, paused, quit_requested>>

(* ------------------------- construction, late rounds --------------------- *)
\* __init__: the fields of a fresh engine
Constructed ==
    /\ snake = <<>>
    /\ snake_positions = {}
    /\ direction = "RIGHT"
    /\ next_direction = "RIGHT"
    /\ food = None
    /\ score = 0
    /\ paused = FALSE
    /\ quit_requested = FALSE
    /\ needs_redraw = TRUE
    /\ state = "NONE"
    /\ branch = "none"
    /\ ticks = 0

\* the k-th cell of the path that sweeps the board row by row, alternating
\* left-to-right and right-to-left
RowPath(k) ==
    LET y == (k - 1) \div width
        i == (k - 1) % width
    IN  Point(IF y % 2 = 0 THEN i ELSE width - 1 - i, y)

\* a snake of length n lying on the path, tail on the first cell
LateSnake(n) == [i \in 1..n |-> RowPath(n + 1 - i)]

\* the direction of the move from p to the adjacent cell q
Heading(p, q) ==
    CHOOSE d \in Directions : translate(p, delta(d)[1], delta(d)[2]) = q

\* a round in progress: the snake reached the first cells of the path and
\* every food since was spawned on the next cell of the path, so that each
\* tick ate; the last spawn may have chosen any free cell. ticks counts the
\* _update calls from here on.
Late ==
    /\ \E n \in (width * height - MaxFree)..(width * height - 1) :
          /\ snake = LateSnake(n)
          /\ snake_positions = Range(LateSnake(n))
          /\ direction = Heading(RowPath(n - 1), RowPath(n))
          /\ next_direction = direction
          /\ food \in EmptyCells(Range(LateSnake(n)))
          /\ score = n - StartLen
    /\ paused = FALSE
    /\ quit_requested = FALSE
    /\ needs_redraw = FALSE
    /\ state = "RUNNING"
    /\ branch = "grow"
    /\ ticks = 0

(* --------------------- the engine driven method by method ---------------- *)
InitEngine ==
    /\ width = MinSide
    /\ height = MinSide
    /\ speed = DefaultSpeed
    /\ Constructed
    /\ limit = MaxTicks
    /\ pc = "api"
    /\ since = FrameDelay

CallReset ==
    /\ pc = "api"
    /\ ResetGame
    /\ UNCHANGED <<board, limit, pc, since>>

\* the keys of direction requests and pause toggles, and the unbound ones
\* (a quit request is a request to the loop)
CallHandleKey ==
    /\ pc = "api"
    /\ \E key \in Keys \ {"q"} : HandleKey(key)
    /\ UNCHANGED <<board, state, branch, ticks, limit, pc, since>>

CallUpdate ==
    /\ pc = "api"
    /\ ticks < limit
    /\ \E o \in UpdateOutcomes : Update(o, o.needs_redraw)
    /\ UNCHANGED <<board, limit, pc, since>>

NextEngine == CallReset \/ CallHandleKey \/ CallUpdate

SpecEngine == InitEngine /\ [][NextEngine]_vars

(* ------------------------ reset on boards of any size -------------------- *)
Sides == MinSide..(MinSide + ExtraSide)

InitReset ==
    /\ width \in Sides
    /\ height \in Sides
    /\ speed = DefaultSpeed
    /\ Constructed \/ Late
    /\ limit = ResetTicks
    /\ pc = "api"
    /\ since = FrameDelay

SpecReset == InitReset /\ [][NextEngine]_vars

(* ------------------------------ construction ----------------------------- *)
\* the value of an attribute that no statement has assigned
Unset == "unset"

\* the arguments SpecConfig passes to __init__
ArgSides == (MinSide - ArgSlack)..(MinSide + ArgSlack)
ArgSpeeds ==
    (MinSpeed - ArgSlack)..(MinSpeed + ArgSlack)
        \cup (MaxSpeed - ArgSlack)..(MaxSpeed + ArgSlack)

\* ValidConfig that turns away the highest speed
ValidConfigBelowMaxSpeed(w, h, s) ==
    /\ ~(w < MinSide \/ h < MinSide)
    /\ ~(s < MinSpeed \/ s >= MaxSpeed)

\* __init__ raises neither ValueError
ValidConfig(w, h, s) ==
    /\ ~(w < MinSide \/ h < MinSide)
    /\ ~(s < MinSpeed \/ s > MaxSpeed)

\* before the call: width, height and speed hold the arguments, no attribute
\* of the engine is assigned
InitConfig ==
    /\ width \in ArgSides
    /\ height \in ArgSides
    /\ speed \in ArgSpeeds
    /\ snake = Unset
    /\ snake_positions = Unset
    /\ direction = Unset
    /\ next_direction = Unset
    /\ food = Unset
    /\ score = Unset
    /\ paused = Unset
    /\ quit_requested = Unset
    /\ needs_redraw = Unset
    /\ state = "NONE"
    /\ branch = "none"
    /\ ticks = 0
    /\ limit = ResetTicks
    /\ pc = "args"
    /\ since = 0

\* SnakeGame(width, height, speed): "raised" when a ValueError leaves the
\* constructor, otherwise the attributes are assigned
Construct ==
    /\ pc = "args"
    /\ IF ValidConfig(width, height, speed)
       THEN /\ pc' = "api"
            /\ snake' = <<>>
            /\ snake_positions' = {}
            /\ direction' = "RIGHT"
            /\ next_direction' = "RIGHT"
            /\ food' = None
            /\ score' = 0
            /\ paused' = FALSE
            /\ quit_requested' = FALSE
            /\ needs_redraw' = TRUE
       ELSE /\ pc' = "raised"
            /\ UNCHANGED engine
    /\ UNCHANGED <<board, state, branch, ticks, limit, since>>

NextConfig == Construct

SpecConfig == InitConfig /\ [][NextConfig]_vars

(* ------------------------- the loop of _curses_main ---------------------- *)
\* run() on a fresh engine, or a round in progress at the top of the loop
InitLoop(n) ==
    /\ width = MinSide
    /\ height = MinSide
    /\ speed = DefaultSpeed
    /\ limit = n
    /\ \/ Constructed /\ pc = "new" /\ since = FrameDelay
       \/ Late /\ pc = "input" /\ since = 0

Init == InitLoop(LoopTicks)

\* Start that enters the loop without _reset_game
StartWithoutReset ==
    /\ pc = "new"
    /\ since' = FrameDelay
    /\ pc' = "input"
    /\ UNCHANGED <<board, engine, state, branch, ticks, limit>>

\* _curses_main up to the loop: _reset_game, last_update = 0.0
Start ==
    /\ pc = "new"
    /\ ResetGame
    /\ since' = FrameDelay
    /\ pc' = "input"
    /\ UNCHANGED <<board, limit>>

\* _process_input: getch delivers a key
PollKey ==
    /\ pc = "input"
    /\ \E key \in Keys : HandleKey(key)
    /\ UNCHANGED <<board, state, branch, ticks, limit, pc, since>>

\* _process_input: getch delivers KEY_RESIZE
PollResize ==
    /\ pc = "input"
    /\ needs_redraw' = TRUE
    /\ UNCHANGED <<board, snake, snake_positions, direction, next_direction,
                   food, score, paused, quit_requested, state, branch, ticks,
                   limit, pc, since>>

\* input drained with quit requested: break
QuitBreak ==
    /\ pc = "input"
    /\ quit_requested
    /\ pc' = "exit"
    /\ UNCHANGED <<board, engine, state, branch, ticks, limit, since>>

\* FrameDue that does not look at the pause flag
FrameDueWhilePaused == since >= FrameDelay

\* FrameDue that does not look at the clock
FrameDueAtOnce == ~paused

\* the pacing test of the loop
FrameDue == ~paused /\ since >= FrameDelay

\* Tick without the break on quit_requested after the drain
TickDespiteQuit ==
    /\ pc = "input"
    /\ FrameDue
    /\ ticks < limit
    /\ \E o \in UpdateOutcomes :
          IF o.state \in Terminal
          THEN Update(o, o.needs_redraw) /\ pc' = "prompt"
          ELSE Update(o, FALSE) /\ pc' = "input"
    /\ since' = 0
    /\ UNCHANGED <<board, limit>>

\* input drained, frame due: _update, last_update = now, then either the
\* play-again prompt or the end of the iteration
Tick ==
    /\ pc = "input"
    /\ ~quit_requested
    /\ FrameDue
    /\ ticks < limit
    /\ \E o \in UpdateOutcomes :
          IF o.state \in Terminal
          THEN Update(o, o.needs_redraw) /\ pc' = "prompt"
          ELSE Update(o, FALSE) /\ pc' = "input"
    /\ since' = 0
    /\ UNCHANGED <<board, limit>>

\* input drained, frame not due: redraw if needed, sleep
Idle ==
    /\ pc = "input"
    /\ ~quit_requested
    /\ ~FrameDue
    /\ needs_redraw' = FALSE
    /\ UNCHANGED <<board, snake, snake_positions, direction, next_direction,
                   food, score, paused, quit_requested, state, branch, ticks,
                   limit, pc, since>>

\* _handle_game_end: the blocking getch delivers a key
PromptKey ==
    /\ pc = "prompt"
    /\ \E key \in Keys \cup {"Q", "R"} :
          IF key \in {"q", "Q"}
          THEN /\ quit_requested' = TRUE
               /\ pc' = "exit"
               /\ UNCHANGED <<snake, snake_positions, direction,
                              next_direction, food, score, paused,
                              needs_redraw, state, branch, ticks, since>>
          ELSE IF key \in {"r", "R"}
          THEN /\ ResetGame
               /\ since' = 0
               /\ pc' = "input"
          ELSE UNCHANGED <<engine, state, branch, ticks, pc, since>>
    /\ UNCHANGED <<board, limit>>

\* time.time() moves on
ClockTick ==
    /\ pc \in {"input", "prompt"}
    /\ since < FrameDelay
    /\ since' = since + 1
    /\ UNCHANGED <<board, engine, state, branch, ticks, limit, pc>>

Next ==
    \/ Start
    \/ PollKey
    \/ PollResize
    \/ QuitBreak
    \/ Tick
    \/ Idle
    \/ PromptKey
    \/ ClockTick

Spec == Init /\ [][Next]_vars

\* the loop with the drain of _process_input ending: getch returns -1 once
\* the keys typed so far are consumed, and the test of quit_requested follows
SpecLive == InitLoop(ResetTicks) /\ [][Next]_vars /\ WF_vars(QuitBreak)

(* ================================ claims ================================= *)
\* a reset has happened: _reset_game is the only writer of a non-empty body
AfterReset == Len(snake) > 0

\* the cell the next _update would move the head to
NewHead ==
    Point(snake[1][1] + delta(next_direction)[1],
          snake[1][2] + delta(next_direction)[2])

\* the step is one call of _update
IsUpdateStep == ticks' = ticks + 1

\* C1: after a reset, whatever requests and ticks follow and whatever the
\* ticks return, snake_positions is exactly the set of points of snake and
\* snake holds no point twice.
C1_SetMatchesBody ==
    AfterReset =>
        /\ snake_positions = {snake[i] : i \in 1..Len(snake)}
        /\ \A i, j \in 1..Len(snake) : snake[i] = snake[j] => i = j
        /\ Cardinality(snake_positions) = Len(snake)

\* C1 witness: a round that has grown and whose last explored tick returned
\* COLLISION
C1_Witness ==
    /\ AfterReset
    /\ Len(snake) >= StartLen + 1
    /\ state = "COLLISION"
    /\ ticks = MaxTicks

\* C2: after a reset the food, when present, is a cell of the board that the
\* snake does not occupy.
C2_FoodOnFreeCell ==
    (AfterReset /\ food # None) =>
        /\ 0 <= food[1] /\ food[1] < width
        /\ 0 <= food[2] /\ food[2] < height
        /\ food \notin snake_positions
        /\ \A i \in 1..Len(snake) : snake[i] # food

\* C2 witness: food respawned by a growing tick, still in place after a
\* later tick returned COLLISION
C2_Witness ==
    /\ state = "COLLISION"
    /\ score >= 1
    /\ food # None

\* the pairs of directions that reverse each other
Reversals ==
    {<<"UP", "DOWN">>, <<"DOWN", "UP">>, <<"LEFT", "RIGHT">>, <<"RIGHT", "LEFT">>}

\* C3: in the game loop the pending direction is never the opposite of the
\* current one, the cell the next tick moves the head to is never the second
\* body segment, and the cell a tick collided with is never that segment.
C3_NoReversal ==
    AfterReset =>
        /\ <<next_direction, direction>> \notin Reversals
        /\ pc = "input" => NewHead # snake[2]
        /\ (pc = "prompt" /\ state = "COLLISION") =>
              Point(snake[1][1] + delta(direction)[1],
                    snake[1][2] + delta(direction)[2]) # snake[2]

\* C3 witness: a tick of the loop collided with the snake's own body
C3_Witness ==
    /\ pc = "prompt"
    /\ state = "COLLISION"
    /\ branch = "self"
    /\ next_direction = direction

\* C4: a tick whose in-bounds new head is the current tail cell returns
\* RUNNING, keeps the length, puts the head on the former tail cell and keeps
\* the occupied set equal to the duplicate-free body.
C4_TailMoveLegal ==
    [][(/\ IsUpdateStep
        /\ food # None
        /\ NewHead = snake[Len(snake)]
        /\ 0 <= NewHead[1] /\ NewHead[1] < width
        /\ 0 <= NewHead[2] /\ NewHead[2] < height)
       => /\ state' = "RUNNING"
          /\ Len(snake') = Len(snake)
          /\ snake'[1] = snake[Len(snake)]
          /\ snake_positions' = {snake'[i] : i \in 1..Len(snake')}
          /\ Cardinality(snake_positions') = Len(snake')]_vars

\* C4 witness: a four-segment snake has just moved its head onto its tail
\* cell, closing a 2x2 block
C4_Witness ==
    /\ branch = "tail"
    /\ state = "RUNNING"
    /\ Len(snake) = StartLen + 1

\* C5: a tick that moves the head onto the food while it is the only empty
\* cell returns WIN with the board filled, food none and the score one
\* higher; a tick that moves the snake returns WIN only with the board
\* filled.
C5_WinWhenFilled ==
    [][/\ (/\ IsUpdateStep
           /\ food # None
           /\ NewHead = food
           /\ Cardinality(snake_positions) = width * height - 1)
          => /\ state' = "WIN"
             /\ {snake'[i] : i \in 1..Len(snake')} = Cells
             /\ snake_positions' = Cells
             /\ food' = None
             /\ score' = score + 1
       /\ (IsUpdateStep /\ state' = "WIN" /\ snake' # snake)
          => /\ Len(snake') = width * height
             /\ {snake'[i] : i \in 1..Len(snake')} = Cells]_vars

\* C5 witness: the tick that ate the last free cell returned WIN
C5_Witness ==
    /\ state = "WIN"
    /\ branch = "filled"
    /\ food = None
    /\ Len(snake) = width * height

\* C6: a tick onto the food that does not fill the board returns RUNNING,
\* adds one to score and length, keeps the tail cell and leaves food on a
\* cell off the grown snake; a tick that returns RUNNING without eating keeps
\* length, score and food.
C6_GrowOrKeep ==
    [][/\ (/\ IsUpdateStep
           /\ food # None
           /\ NewHead = food
           /\ Len(snake) + 1 < width * height)
          => /\ state' = "RUNNING"
             /\ score' = score + 1
             /\ Len(snake') = Len(snake) + 1
             /\ snake'[1] = food
             /\ snake'[Len(snake')] = snake[Len(snake)]
             /\ food' # None
             /\ \A i \in 1..Len(snake') : snake'[i] # food'
             /\ food' # food
       /\ (/\ IsUpdateStep
           /\ state' = "RUNNING"
           /\ food # None
           /\ NewHead # food)
          => /\ Len(snake') = Len(snake)
             /\ score' = score
             /\ food' = food]_vars

\* C6 witness: the first tick of a round ate: score 1, length 4
C6_Witness ==
    /\ branch = "grow"
    /\ state = "RUNNING"
    /\ ticks = 1
    /\ score = 1
    /\ Len(snake) = StartLen + 1

\* C7: with food present a tick returns COLLISION exactly when the new head
\* is off the board or on a snake cell other than the tail cell that a
\* non-growing move vacates.
C7_CollisionIff ==
    [][(IsUpdateStep /\ food # None)
       => (state' = "COLLISION"
           <=> \/ NewHead[1] < 0
               \/ NewHead[1] >= width
               \/ NewHead[2] < 0
               \/ NewHead[2] >= height
               \/ /\ \E i \in 1..Len(snake) : snake[i] = NewHead
                  /\ ~(NewHead # food /\ NewHead = snake[Len(snake)]))]_vars

\* C7 witness: the head in the last column, moving RIGHT, hit the wall
C7_Witness ==
    /\ state = "COLLISION"
    /\ branch = "wall"
    /\ direction = "RIGHT"
    /\ snake[1][1] = width - 1

\* C8: in the loop a tick never follows a tick of the same round that
\* returned COLLISION or WIN; such a tick leads to the prompt, from where the
\* only steps are keys that change nothing, quit (the loop ends, no more
\* ticks) and a reset that starts the next round.
C8_NoTickAfterTerminal ==
    [][/\ IsUpdateStep => ~(ticks > 0 /\ state \in {"COLLISION", "WIN"})
       /\ (IsUpdateStep /\ state' \in {"COLLISION", "WIN"}) => pc' = "prompt"
       /\ pc = "prompt" =>
             \/ UNCHANGED <<engine, state, ticks, pc>>
             \/ /\ pc' = "exit"
                /\ quit_requested'
                /\ UNCHANGED <<snake, snake_positions, direction,
                               next_direction, food, score, paused, state,
                               ticks>>
             \/ /\ pc' = "input"
                /\ ticks' = 0
                /\ Len(snake') = StartLen
                /\ score' = 0
                /\ ~quit_requested'
       /\ pc = "exit" => UNCHANGED vars]_vars

\* C8 witness: the loop waits at the prompt after WIN while the clock has
\* moved a whole frame on
C8_Witness ==
    /\ pc = "prompt"
    /\ state = "WIN"
    /\ since >= FrameDelay

\* C9: on every board _reset_game leaves the three-segment snake centred
\* and in bounds, head rightmost, heading RIGHT with RIGHT pending, score 0,
\* not paused, food on a free cell of the board, and the board as it was.
C9_ResetState ==
    [][CallReset
       => /\ snake' = <<Point(width \div 2, height \div 2),
                        Point(width \div 2 - 1, height \div 2),
                        Point(width \div 2 - 2, height \div 2)>>
          /\ \A i \in 1..3 :
                /\ 0 <= snake'[i][1] /\ snake'[i][1] < width
                /\ 0 <= snake'[i][2] /\ snake'[i][2] < height
          /\ \A i, j \in 1..3 : snake'[i] = snake'[j] => i = j
          /\ snake_positions' = {snake'[1], snake'[2], snake'[3]}
          /\ direction' = "RIGHT"
          /\ next_direction' = "RIGHT"
          /\ score' = 0
          /\ ~paused'
          /\ food' # None
          /\ 0 <= food'[1] /\ food'[1] < width
          /\ 0 <= food'[2] /\ food'[2] < height
          /\ food' \notin {snake'[1], snake'[2], snake'[3]}
          /\ width' = width
          /\ height' = height]_vars

\* C9 witness: a reset after COLLISION late in a round on an 11 x 12 board
C9_Witness ==
    /\ width = MinSide + 1
    /\ height = MinSide + 2
    /\ state = "COLLISION"
    /\ ticks = 0
    /\ score = 0
    /\ Len(snake) = StartLen

\* C10: while paused no step ticks or changes snake, food, score or current
\* direction, however far the clock moves; the step that toggles pause is no
\* tick; a paused loop still admits every direction that is neither the
\* current one nor its opposite, still takes a quit request, and with quit
\* requested can only leave the loop.
C10_PausedNoTick ==
    /\ [][/\ paused => /\ ~IsUpdateStep
                       /\ UNCHANGED <<snake, snake_positions, food, score,
                                      direction>>
          /\ paused' # paused => /\ ~IsUpdateStep
                                 /\ UNCHANGED <<snake, snake_positions, food,
                                                score, direction>>
          /\ (paused /\ quit_requested /\ pc' # pc) => pc' = "exit"]_vars
    /\ [](paused /\ pc = "input" =>
            /\ \A d \in Directions :
                  (d # direction /\ <<d, direction>> \notin Reversals)
                  => ENABLED (PollKey /\ next_direction' = d /\ paused')
            /\ ENABLED (PollKey /\ quit_requested' /\ paused')
            /\ quit_requested => ENABLED (QuitBreak /\ pc' = "exit"))

\* C10 witness: a paused loop, a frame overdue, holds a pending direction
\* and has left on a quit request
C10_Witness ==
    /\ paused
    /\ since >= FrameDelay
    /\ next_direction # direction
    /\ quit_requested
    /\ pc = "exit"


(* ---------------------------------------------------------------- C11 *)

PauseKeys == {"p", "P"}

\* one request applied again to the fields it has just produced
Twice(key) == AfterKey(key, AfterKey(key, Fields))

\* C11 as stated: every request (each direction key, the pause key, the quit
\* key) applied twice in succession leaves the engine as one application
\* does.
C11_AllIdempotent ==
    \A key \in Keys \cup {"Q", "P"} : Twice(key) = AfterKey(key, Fields)

\* C11: a direction request and a quit request applied twice in succession
\* leave the engine as one application does; the pause request does not: it
\* flips paused each time, so the second application restores the value
\* paused had before the first and the engine differs from the one after a
\* single application.
C11_IdempotentButPause ==
    /\ \A key \in (Keys \cup {"Q", "P"}) \ PauseKeys :
            Twice(key) = AfterKey(key, Fields)
    /\ \A key \in PauseKeys :
            /\ Twice(key) # AfterKey(key, Fields)
            /\ Twice(key).paused = paused
            /\ AfterKey(key, Fields).paused = ~paused

\* a direction request was admitted, the game is paused and quit was
\* requested: each of the three requests has acted
C11_Witness ==
    /\ next_direction # direction
    /\ paused
    /\ quit_requested
    /\ pc = "input"


(* ---------------------------------------------------------------- C12 *)

\* the arguments the sentence names as refused
Refused == width < 10 \/ height < 10 \/ speed < 1 \/ speed > 30

\* C12: the constructor always returns or raises; it raises exactly for
\* width < 10, height < 10, speed < 1 or speed > 30, and then no attribute of
\* an engine has been assigned; for every other argument triple, the
\* boundary values width 10, height 10, speed 1 and speed 30 included, it
\* returns an engine that holds the arguments, with an empty snake, no food,
\* score 0, heading RIGHT, not paused and quit not requested.
C12_ConstructorValidates ==
    [](/\ pc = "args" => ENABLED Construct
       /\ pc = "raised" =>
            /\ Refused
            /\ \A i \in 1..Len(engine) : engine[i] = Unset
       /\ pc = "api" =>
            /\ ~Refused
            /\ width >= 10 /\ height >= 10 /\ speed \in 1..30
            /\ snake = <<>> /\ snake_positions = {} /\ food = None
            /\ score = 0 /\ direction = "RIGHT" /\ next_direction = "RIGHT"
            /\ ~paused /\ ~quit_requested)

\* construction with the boundary speed 30 on the smallest board succeeded
C12_Witness ==
    /\ pc = "api"
    /\ width = 10 /\ height = 10 /\ speed = 30
    /\ snake = <<>>


(* ---------------------------------------------------------------- C13 *)

\* C13: from the moment quit is requested, by a quit key among the keys of a
\* drain or at the play-again prompt, no _update is executed and the snake,
\* food, score and direction stay as they are, the quit flag stays set, the
\* loop goes nowhere but to its exit, and it does reach its exit; the loop
\* is only ever left with quit requested.
C13_QuitEndsLoop ==
    /\ [][quit_requested =>
            /\ ~IsUpdateStep
            /\ quit_requested'
            /\ pc' \in {pc, "exit"}
            /\ UNCHANGED <<snake, snake_positions, food, score, direction,
                           state, ticks>>]_vars
    /\ [][quit_requested' /\ ~quit_requested =>
            pc' = pc \/ (pc = "prompt" /\ pc' = "exit")]_vars
    /\ [](pc = "exit" => quit_requested)
    /\ (quit_requested ~> pc = "exit")

\* the loop has ended on a quit request although a frame was due, the game
\* was running and not paused, and ticks were left
C13_Witness ==
    /\ pc = "exit"
    /\ quit_requested
    /\ ~paused
    /\ since >= FrameDelay
    /\ state = "RUNNING"
    /\ ticks = limit


(* ---------------------------------------------------------------- C14 *)

\* the request d is neither the current direction nor its opposite
Admissible(d) == d # direction /\ <<d, direction>> \notin Reversals

\* the step polls input: it is no tick, no reset and no passing of time
IsPollStep ==
    pc = "input" /\ pc' = "input" /\ ticks' = ticks /\ since' = since

\* the step is a reset
IsResetStep == pc \in {"new", "prompt"} /\ pc' = "input"

\* C14: a direction request replaces the pending direction exactly when the
\* requested direction is neither the current direction nor its opposite,
\* whatever the pending direction is; a rejected request leaves every field
\* as it was; polling input changes the pending direction only to one that
\* is admissible against the current direction and changes neither the
\* current direction nor snake, food or score; the current direction changes
\* only in a tick, which commits the pending direction as the requests before
\* it left it, or in a reset.
C14_AdmissionAgainstCurrent ==
    /\ [](pc = "input" =>
            \A key \in DOMAIN direction_map :
                LET d == direction_map[key]
                    after == AfterKey(key, Fields)
                IN  IF Admissible(d)
                    THEN after = [Fields EXCEPT !.next_direction = d,
                                                !.needs_redraw = TRUE]
                    ELSE after = Fields)
    /\ [][IsPollStep =>
            /\ UNCHANGED <<direction, snake, snake_positions, food, score>>
            /\ next_direction' # next_direction => Admissible(next_direction')
         ]_vars
    /\ [][direction' # direction =>
            \/ IsUpdateStep /\ direction' = next_direction
            \/ IsResetStep
         ]_vars
    /\ [][IsUpdateStep /\ food # None => direction' = next_direction]_vars

\* a tick has committed a turn to UP and a request drained since then has
\* made LEFT the pending direction
C14_Witness ==
    /\ pc = "input"
    /\ ticks >= 1
    /\ direction = "UP"
    /\ next_direction = "LEFT"
    /\ state = "RUNNING"


(* ---------------------------------------------------------------- C15 *)

\* C15: a tick that returns COLLISION, from the wall test or from the self
\* test, leaves the body sequence, the occupied set, the food and the score
\* exactly as they were before the tick.
C15_CollisionChangesNothing ==
    [][IsUpdateStep /\ state' = "COLLISION" =>
            /\ branch' \in {"wall", "self"}
            /\ UNCHANGED <<snake, snake_positions, food, score>>
      ]_vars

\* a tick ran the grown snake into its own body
C15_Witness ==
    /\ state = "COLLISION"
    /\ branch = "self"
    /\ Len(snake) >= 5
    /\ score >= 2

(* ---------------------------------------------------------------- C16 *)

\* C16: a tick on a constructed engine that was never reset completes: while
\* the snake is empty the food is none, so the tick returns (WIN) through
\* the test of food before it reads the head of the snake; it leaves snake,
\* occupied set, food, score, current direction and pending direction
\* unchanged, the snake still empty.
C16_TickBeforeReset ==
    /\ [][IsUpdateStep /\ snake = <<>> =>
            /\ branch' = "nofood"
            /\ UNCHANGED <<snake, snake_positions, food, score, direction,
                           next_direction>>
         ]_vars
    /\ [](snake = <<>> => food = None /\ snake_positions = {} /\ score = 0)
    /\ [](snake = <<>> /\ pc = "api" /\ ticks < limit => ENABLED CallUpdate)

\* a tick ran before any reset, with a turn requested before it
C16_Witness ==
    /\ snake = <<>>
    /\ branch = "nofood"
    /\ ticks >= 1
    /\ next_direction # direction


(* ---------------------------------------------------------------- C17 *)

\* C17: in the game loop no tick returns through the test of food at its
\* start: wherever the loop can tick, food is present; after a reset, food
\* is none exactly when the snake occupies every cell of the board, and
\* then the loop is at the play-again prompt or has been left.
C17_FoodNoneOnlyWhenFilled ==
    /\ branch # "nofood"
    /\ pc = "input" => food # None
    /\ AfterReset =>
          /\ food = None <=> snake_positions = Cells
          /\ food = None => pc \in {"prompt", "exit"} /\ state = "WIN"

\* the loop was left from the prompt of a filled board, food none
C17_Witness ==
    /\ pc = "exit"
    /\ food = None
    /\ snake_positions = Cells
    /\ ticks >= 1


(* ---------------------------------------------------------------- C18 *)

\* the loop is polling input with the game paused or the frame not yet due
NotDue == pc = "input" /\ (paused \/ since < FrameDelay)

\* C18: a tick of the loop is executed only with the game not paused and at
\* least frame_delay elapsed since the timestamp of the last tick (since the
\* reset, after a terminal outcome); the tick takes that timestamp anew, so
\* that the next tick waits for the clock again and an iteration holds at
\* most one tick; while the game is paused or the frame is not due, input
\* can still be polled, the iteration can end without a tick, and no step
\* changes snake, food, score or current direction.
C18_FramePacing ==
    /\ [][IsUpdateStep =>
            /\ pc = "input"
            /\ ~paused
            /\ since >= FrameDelay
            /\ since' = 0
            /\ since' < FrameDelay
         ]_vars
    /\ [][NotDue =>
            /\ ~IsUpdateStep
            /\ UNCHANGED <<snake, snake_positions, food, score, direction>>
         ]_vars
    /\ [](NotDue =>
            /\ ENABLED PollKey
            /\ ~quit_requested => ENABLED Idle /\ ~ENABLED Tick)
    /\ [][pc = "prompt" /\ pc' = "input" => since' = 0]_vars

\* right after a tick, the frame not due, a request was polled and admitted
C18_Witness ==
    /\ pc = "input"
    /\ ticks >= 1
    /\ since = 0
    /\ ~paused
    /\ state = "RUNNING"
    /\ next_direction # direction


(* ---------------------------------------------------------------- C19 *)

\* C19: after a reset the snake is three segments longer than the score;
\* the score changes only by one upward, in a tick whose new head is the
\* food cell, or back to 0 in a reset, and every tick onto the food that
\* does not collide raises it.
C19_LengthIsScorePlusThree ==
    /\ [](AfterReset => Len(snake) = score + 3)
    /\ [][score' # score =>
            \/ /\ IsUpdateStep
               /\ NewHead = food
               /\ score' = score + 1
               /\ Len(snake') = Len(snake) + 1
            \/ /\ ~IsUpdateStep
               /\ ticks' = 0
               /\ score' = 0
               /\ Len(snake') = 3
         ]_vars
    /\ [][IsUpdateStep /\ AfterReset /\ NewHead = food
              /\ state' # "COLLISION" => score' = score + 1]_vars

\* a reset, after a tick that grew the snake, has taken the snake back to
\* three segments and the score to 0
C19_Witness ==
    /\ Len(snake) = 3
    /\ score = 0
    /\ ticks = 0
    /\ state = "RUNNING"
    /\ branch = "grow"

(* ---------------------------------------------------------------- C20 *)

\* the cells p and q share an edge
Adjacent(p, q) == Abs(p[1] - q[1]) + Abs(p[2] - q[2]) = 1

\* C20: after a reset every segment of the snake lies on the board, with
\* 0 <= x < width and 0 <= y < height, and every two consecutive segments
\* share an edge.
C20_BodyOnBoardAndConnected ==
    AfterReset =>
        /\ \A i \in 1..Len(snake) :
              /\ 0 <= snake[i][1] /\ snake[i][1] < width
              /\ 0 <= snake[i][2] /\ snake[i][2] < height
        /\ \A i \in 1..(Len(snake) - 1) : Adjacent(snake[i], snake[i + 1])

\* the snake has grown, turned and put its head on the top row
C20_Witness ==
    /\ Len(snake) >= 4
    /\ snake[1][2] = 0
    /\ snake[1][1] # snake[Len(snake)][1]
    /\ state = "RUNNING"

====
